---- MODULE Spec2Model ----
(***************************************************************************)
(* Model of mpas_patches.py: the construction of one closed path per MPAS  *)
(* cell (get_mpas_patches, lines 85-122), the pickle cache around it       *)
(* (lines 56-81 and 124-134), the progress reports of the cell loop        *)
(* (update_progress) and the command-line entry point (lines 137-192).     *)
(*                                                                         *)
(* Angles.  Radians are held as integers counting units of pi/PiUnits, and *)
(* degrees as integers, so that the conversion of lines 95-96 is the       *)
(* multiplication by 180/pi that the code performs.                        *)
(* Optional Python values are sequences: <<>> is None, <<x>> is x.         *)
(***************************************************************************)
EXTENDS Integers, Sequences, FiniteSets, TLC

VARIABLES
    fs,                \* the files of the working directory: name -> content
    pc,                \* position of the running process or call
    mode,              \* "lib": get_mpas_patches called directly; "cli": script run
    argv,              \* command-line arguments of the current script run
    mesh,              \* get_mpas_patches argument / script variable `mesh`
    pickle,            \* get_mpas_patches argument
    pickleFile,        \* get_mpas_patches argument (<<>> is None)
    force,             \* kwargs.get('force', False)
    pickle_fname,      \* local of get_mpas_patches (<<>> before line 56)
    patch_collection,  \* local of get_mpas_patches (<<>> before it is bound)
    ret,               \* value returned by get_mpas_patches (<<>> if none)
    exitStatus,        \* exit status of the process (<<>> while it runs)
    reports,           \* update_progress calls made by the current build
    nCells,            \* cell loop: number of cells
    i,                 \* cell loop: index of the next cell
    output,            \* script variable `output` (<<>> is None)
    fsAtCall,          \* history: fs when the current call or run started
    did                \* history: what the current call or run has done so far

vars == <<fs, pc, mode, argv, mesh, pickle, pickleFile, force, pickle_fname,
          patch_collection, ret, exitStatus, reports, nCells, i, output,
          fsAtCall, did>>

None == <<>>
Some(x) == <<x>>

Min(a, b) == IF a < b THEN a ELSE b
Abs(a) == IF a < 0 THEN -a ELSE a

----------------------------------------------------------------------------
(* Bounds of the model *)

MaxEdges == 3              \* maxEdges of the meshes whose build is explored
NumVertices == 2           \* nVertices of those meshes
MaxProgressCells == 520    \* largest nCells of the cell loop explored alone

(* Radians per half turn in model units: 1 unit = 1/3 degree. *)
PiUnits == 540

(* i % 250 == 0 at line 116 *)
ProgressCadence == 250

(* length = 40 in update_progress *)
BarLength == 40

----------------------------------------------------------------------------
(* NumPy indexing *)

\* a[k] for a 1-d array of length Len(a): valid for -Len(a) <= k < Len(a),
\* a negative k counting from the end; anything else raises IndexError.
IndexInBounds(arr, k) == -Len(arr) <= k /\ k < Len(arr)

NpItem(arr, k) == arr[(k % Len(arr)) + 1]

\* a[0:stop] for stop >= 0: the stop is clamped to the length.
NpSliceTo(arr, stop) == SubSeq(arr, 1, Min(stop, Len(arr)))

----------------------------------------------------------------------------
(* Patch construction, lines 85-122 *)

\* lines 95-96: *= (180.0/np.pi)
ToDegrees(r) == (r * 180) \div PiUnits

\* lines 88-90: latVertex[vertices - 1], lonVertex[vertices - 1] raise
\* IndexError as soon as one entry of the whole array is out of bounds.
GatherFails(m) ==
    \E c \in 1..Len(m.verticesOnCell) :
        \E j \in 1..Len(m.verticesOnCell[c]) :
            \/ ~IndexInBounds(m.latVertex, m.verticesOnCell[c][j] - 1)
            \/ ~IndexInBounds(m.lonVertex, m.verticesOnCell[c][j] - 1)

\* lines 88-104: llVertexOnCell[c, j, :] = (lon, lat) in degrees, for every
\* slot of every cell, used or not.
GatherDegrees(m) ==
    [c \in 1..Len(m.verticesOnCell) |->
        [j \in 1..Len(m.verticesOnCell[c]) |->
            << ToDegrees(NpItem(m.lonVertex, m.verticesOnCell[c][j] - 1)),
               ToDegrees(NpItem(m.latVertex, m.verticesOnCell[c][j] - 1)) >>]]

\* faulty variant: the comparisons are not strict
UnwrapLon_NotStrict(lon, diff) ==
    IF diff >= 180 THEN lon - 360
    ELSE IF diff <= -180 THEN lon + 360
    ELSE lon

\* faulty variant: only the eastward jump is corrected
UnwrapLon_OneSided(lon, diff) ==
    IF diff > 180 THEN lon - 360 ELSE lon

\* lines 109-110: both masks come from the diff computed at line 108
UnwrapLon(lon, diff) ==
    IF diff > 180 THEN lon - 360
    ELSE IF diff < -180 THEN lon + 360
    ELSE lon

\* lines 108-110 for one cell: diff against the first slot's longitude,
\* over all maxEdges slots; latitudes untouched.
UnwrapRow(row) ==
    [j \in 1..Len(row) |->
        << UnwrapLon(row[j][1], row[j][1] - row[1][1]), row[j][2] >>]

\* lines 112-114: Path(llVertexOnCell[i, 0:nEdgesOnCell[i]+1, :],
\*                     closed=True, readonly=True)
CellPath(row, n) ==
    [vertices |-> NpSliceTo(UnwrapRow(row), n + 1),
     closed   |-> TRUE,
     readonly |-> TRUE]

\* lines 107-122: one patch per cell, in cell order
BuildPatches(m) ==
    [c \in 1..Len(m.verticesOnCell) |->
        CellPath(GatherDegrees(m)[c], m.nEdgesOnCell[c])]

----------------------------------------------------------------------------
(* update_progress, lines 30-37, and its calls at lines 116-117 *)

\* Python 3 round(a/b) for a >= 0, b > 0: to nearest, ties to even
RoundHalfEven(a, b) ==
    LET q == a \div b
        r == a % b
    IN  IF 2 * r < b THEN q
        ELSE IF 2 * r > b THEN q + 1
        ELSE IF q % 2 = 0 THEN q ELSE q + 1

\* update_progress(job_title, k/n), lines 30-37: the fraction is kept as the pair
\* (num, den); block is the number of '#' drawn; done says whether the
\* branch `if progress >= 1` (line 35) was taken.
update_progress(k, n) ==
    [num   |-> k,
     den   |-> n,
     block |-> RoundHalfEven(BarLength * k, n),
     done  |-> k >= n]

\* line 116: if i % 250 == 0
ReportsAt(k) == k % ProgressCadence = 0

\* The reports of a whole loop over `rows` cells (range(shape[0])), each
\* carrying i/nCells: i = 0, 250, 500, ... below rows.
ProgressCalls(rows, n) ==
    IF rows = 0 THEN <<>>
    ELSE [k \in 1..(((rows - 1) \div ProgressCadence) + 1) |->
             update_progress(ProgressCadence * (k - 1), n)]

----------------------------------------------------------------------------
(* Files and pickling *)

Absent == [kind |-> "absent", data |-> <<>>]
\* a file whose bytes are no pickle stream (truncated, garbage)
Garbage == [kind |-> "garbage", data |-> <<>>]

\* pkle.dump(obj, file) into a file opened 'wb' (lines 126-128): the file
\* holds the pickle stream of obj and nothing else.
PickleDump(obj) == [kind |-> "pickle", data |-> <<obj>>]

\* pkle.load(file) (line 67): raises unless the bytes are a pickle stream
Unpickles(content) == content.kind = "pickle"
PickleLoad(content) == content.data[1]

\* os.path.isfile
IsFile(files, name) == files[name].kind # "absent"

\* `if x:` for a string-or-None value
Truthy(x) == x # None /\ x[1] # ""

\* generate_mesh_patch_fname, lines 39-43
generate_mesh_patch_fname(m) == ToString(m.nCells) \o ".patches"

\* lines 56-59
PickleFname(m, pf) ==
    IF Truthy(pf) THEN pf[1] ELSE generate_mesh_patch_fname(m)

\* faulty variant: the cache is never consulted
CacheHit_Disabled(files, name, f) == FALSE

\* faulty variant: the `not` before force is lost
CacheHit_ForceInverted(files, name, f) == IsFile(files, name) /\ f

\* line 64: os.path.isfile(pickle_fname) and not force
CacheHit(files, name, f) == IsFile(files, name) /\ ~f

\* faulty variant: a read error is treated as a miss and the patches are rebuilt
OnUnpickleError_Rebuild == "build"

\* lines 71-76: the except branch ends in sys.exit(-1)
OnUnpickleError == "exited"

\* faulty variant: the collection is never saved
ShouldPickle_Never(p) == FALSE

\* line 125: if pickle
ShouldPickle(p) == p

\* sys.exit(code): the status the parent sees is code mod 256
ExitStatusOf(code) == code % 256

\* an exception nobody catches ends the interpreter with status 1
UncaughtStatus == ExitStatusOf(1)

\* mesh.dimensions['nCells'], mesh.variables[...] (lines 41, 49-54) succeed
\* on a Dataset holding an MPAS mesh; a str has no such attribute
\* (AttributeError) and another NetCDF file has no such key (KeyError).
HasMeshFields(m) == m.type = "Dataset"

Terminal == {"idle", "returned", "exited", "raised"}

----------------------------------------------------------------------------
(* Meshes *)

\* radians (model units) of a longitude or latitude given in degrees
Rad(deg) == deg * (PiUnits \div 180)

\* A Dataset with the dimensions and variables get_mpas_patches reads
\* (lines 49-54); latitudes are 10, 20, ... degrees by vertex.
Dataset(rows, counts, lons) ==
    [type           |-> "Dataset",
     nCells         |-> Len(rows),
     maxEdges       |-> Len(rows[1]),
     verticesOnCell |-> rows,
     nEdgesOnCell   |-> counts,
     latVertex      |-> [v \in 1..Len(lons) |-> Rad(10 * v)],
     lonVertex      |-> lons]

\* what `mesh` is when it is not a Dataset: the path string of the script
StrMesh(path) == [type |-> "str", value |-> path]

\* Longitudes (degrees) of the vertices of the explored meshes: both sides
\* of the antimeridian, pairs exactly 180 apart, and one value that makes a
\* cell wider than 360 degrees.
LonDegs == {-179, 1, 179, 181, 541}

\* Entries of verticesOnCell: too negative for NumPy, negative but wrapping,
\* zero, the valid 1-based indices, and one past the end.
IndexVals == {-NumVertices, -1, 0, NumVertices + 1} \cup (1..NumVertices)

\* The one-cell mesh with the given slots, count and vertex longitudes
BuildMesh(row, n, lons) ==
    Dataset(<<row>>, <<n>>, [v \in 1..NumVertices |-> Rad(lons[v])])

\* The meshes of the cache and command-line runs
MeshA == Dataset(<< <<1, 2, 1>> >>, <<2>>, <<Rad(179), Rad(-179)>>)
MeshB == Dataset(<< <<2, 1, 0>> >>, <<3>>, <<Rad(1), Rad(181)>>)
MeshC == Dataset(<< <<1, 2, 2>>, <<2, 1, 1>> >>, <<2, 3>>, <<Rad(1), Rad(179)>>)
MeshBad == Dataset(<< <<1, 3, 1>> >>, <<2>>, <<Rad(1), Rad(179)>>)
CacheMeshes == {MeshA, MeshB, MeshC, MeshBad}

OverridePath == "out.patches"
PathNames == {generate_mesh_patch_fname(m) : m \in CacheMeshes}
                 \cup {OverridePath}

\* the values given for pickleFile: None, the empty string, a path
PickleFileArgs == {None, Some(""), Some(OverridePath)}

\* The working directory before the first call: each path missing, holding
\* garbage, or holding a collection pickled earlier.
InitialContents == {Absent, Garbage, PickleDump(BuildPatches(MeshA))}

----------------------------------------------------------------------------
(* get_mpas_patches, lines 45-134, as the steps of one call *)

Raise ==
    /\ pc' = "raised"
    /\ exitStatus' = Some(UncaughtStatus)

\* lines 47-61: the reads of mesh.dimensions / mesh.variables and the choice
\* of the file name
Entry ==
    /\ pc = "entry"
    /\ IF HasMeshFields(mesh)
       THEN /\ pickle_fname' = Some(PickleFname(mesh, pickleFile))
            /\ pc' = "lookup"
            /\ UNCHANGED exitStatus
       ELSE /\ Raise
            /\ UNCHANGED pickle_fname
    /\ UNCHANGED <<fs, mode, argv, mesh, pickle, pickleFile, force,
                   patch_collection, ret, reports, nCells, i, output,
                   fsAtCall, did>>

\* lines 63-81: try to load the pickle file
Lookup ==
    /\ pc = "lookup"
    /\ IF CacheHit(fs, pickle_fname[1], force)
       THEN IF Unpickles(fs[pickle_fname[1]])
            THEN /\ ret' = Some(PickleLoad(fs[pickle_fname[1]]))
                 /\ pc' = "returned"
                 /\ did' = did \cup {"lookup", "load"}
                 /\ UNCHANGED exitStatus
            ELSE /\ pc' = OnUnpickleError
                 /\ exitStatus' = IF OnUnpickleError = "exited"
                                  THEN Some(ExitStatusOf(-1)) ELSE exitStatus
                 /\ did' = did \cup {"lookup", "loadfail"}
                 /\ UNCHANGED ret
       ELSE /\ pc' = "build"
            /\ did' = did \cup {"lookup"}
            /\ UNCHANGED <<ret, exitStatus>>
    /\ UNCHANGED <<fs, mode, argv, mesh, pickle, pickleFile, force,
                   pickle_fname, patch_collection, reports, nCells, i,
                   output, fsAtCall>>

\* lines 85-122: gather, convert, unwrap, one Path per cell, the collection
Build ==
    /\ pc = "build"
    /\ did' = did \cup {"build"}
    /\ IF GatherFails(mesh)
       THEN /\ Raise
            /\ UNCHANGED <<patch_collection, reports>>
       ELSE /\ patch_collection' = Some(BuildPatches(mesh))
            /\ reports' = ProgressCalls(Len(mesh.verticesOnCell), mesh.nCells)
            /\ pc' = "pickle"
            /\ UNCHANGED exitStatus
    /\ UNCHANGED <<fs, mode, argv, mesh, pickle, pickleFile, force,
                   pickle_fname, ret, nCells, i, output, fsAtCall>>

\* lines 124-132: pickle the patch collection
Pickle ==
    /\ pc = "pickle"
    /\ IF ShouldPickle(pickle)
       THEN /\ fs' = [fs EXCEPT ![pickle_fname[1]] = PickleDump(patch_collection[1])]
            /\ did' = did \cup {"write"}
       ELSE UNCHANGED <<fs, did>>
    /\ pc' = "return"
    /\ UNCHANGED <<mode, argv, mesh, pickle, pickleFile, force, pickle_fname,
                   patch_collection, ret, exitStatus, reports, nCells, i,
                   output, fsAtCall>>

\* line 134
Return ==
    /\ pc = "return"
    /\ ret' = patch_collection
    /\ pc' = "returned"
    /\ UNCHANGED <<fs, mode, argv, mesh, pickle, pickleFile, force,
                   pickle_fname, patch_collection, exitStatus, reports,
                   nCells, i, output, fsAtCall, did>>

\* A caller invokes get_mpas_patches(mesh, pickle, pickleFile, force=f);
\* every call starts from the files the earlier calls left.
Call(m, p, pf, f) ==
    /\ pc \in Terminal
    /\ mode' = "lib"
    /\ mesh' = m
    /\ pickle' = p
    /\ pickleFile' = pf
    /\ force' = f
    /\ pickle_fname' = None
    /\ patch_collection' = None
    /\ ret' = None
    /\ exitStatus' = None
    /\ reports' = <<>>
    /\ fsAtCall' = fs
    /\ did' = {}
    /\ pc' = "entry"
    /\ UNCHANGED <<fs, argv, nCells, i, output>>

NoArgv == [mesh |-> "", output |-> None, force |-> FALSE]

InitCommon ==
    /\ mode = "lib"
    /\ argv = NoArgv
    /\ pickle_fname = None
    /\ patch_collection = None
    /\ ret = None
    /\ exitStatus = None
    /\ reports = <<>>
    /\ nCells = 0
    /\ i = 0
    /\ output = None
    /\ did = {}

Init ==
    /\ InitCommon
    /\ fs \in [PathNames -> InitialContents]
    /\ fsAtCall = fs
    /\ pc = "idle"
    /\ mesh = MeshA
    /\ pickle = TRUE
    /\ pickleFile = None
    /\ force = FALSE

Next ==
    \/ \E m \in CacheMeshes, p \in BOOLEAN, pf \in PickleFileArgs, f \in BOOLEAN :
           Call(m, p, pf, f)
    \/ Entry
    \/ Lookup
    \/ Build
    \/ Pickle
    \/ Return

Spec == Init /\ [][Next]_vars

----------------------------------------------------------------------------
(* The build alone: for every one-cell mesh over IndexVals and LonDegs, one *)
(* call that found no pickle file, from line 85 on                         *)

InitBuild ==
    /\ mode = "lib"
    /\ argv = NoArgv
    /\ \E row \in [1..MaxEdges -> IndexVals], n \in 1..MaxEdges,
          lons \in [1..NumVertices -> LonDegs] :
           mesh = BuildMesh(row, n, lons)
    /\ pickle = TRUE
    /\ pickleFile = None
    /\ force = FALSE
    /\ pickle_fname = Some(PickleFname(mesh, pickleFile))
    /\ patch_collection = None
    /\ ret = None
    /\ exitStatus = None
    /\ reports = <<>>
    /\ nCells = 0
    /\ i = 0
    /\ output = None
    /\ fs = [n \in PathNames |-> Absent]
    /\ fsAtCall = fs
    /\ did = {"lookup"}
    /\ pc = "build"

NextBuild ==
    \/ Build
    \/ Pickle
    \/ Return

SpecBuild == InitBuild /\ [][NextBuild]_vars

----------------------------------------------------------------------------
(* The script, lines 137-192, as the steps of one process *)

\* a NetCDF file that holds no MPAS mesh: Dataset() opens it
NotAMesh == [type |-> "OtherDataset"]

\* The mesh files on disk: a path that names no file, a file that is not
\* NetCDF, a NetCDF file that is no mesh, and two mesh files.  <<>> is "no
\* such file"; otherwise the file is what Dataset() gives for it, a str
\* record standing for the files on which Dataset() raises.
MeshPaths == {"missing.nc", "notnetcdf.nc", "notmesh.nc", "x1.nc", "x2.nc"}
MeshFile(path) ==
    CASE path = "x1.nc" -> Some(MeshA)
      [] path = "x2.nc" -> Some(MeshC)
      [] path = "notmesh.nc" -> Some(NotAMesh)
      [] path = "notnetcdf.nc" -> Some(StrMesh("garbage"))
      [] OTHER -> None

\* os.path.isfile(mesh), line 171
MeshFileExists(path) == MeshFile(path) # None
\* Dataset(mesh) does not raise, line 178
OpensAsDataset(path) == MeshFileExists(path) /\ MeshFile(path)[1].type # "str"
\* the file opens and holds the dimensions and variables of a mesh
IsMeshFile(path) == OpensAsDataset(path) /\ HasMeshFields(MeshFile(path)[1])

Argvs == [mesh : MeshPaths, output : PickleFileArgs, force : BOOLEAN]

Exit(code) ==
    /\ pc' = "exited"
    /\ exitStatus' = Some(ExitStatusOf(code))

\* lines 164-169: a new process parses its arguments
CliRun(a) ==
    /\ pc \in {"idle", "exited", "raised"}
    /\ mode' = "cli"
    /\ argv' = a
    /\ force' = a.force
    /\ mesh' = StrMesh(a.mesh)
    /\ output' = a.output
    /\ pickle' = TRUE
    /\ pickleFile' = None
    /\ pickle_fname' = None
    /\ patch_collection' = None
    /\ ret' = None
    /\ exitStatus' = None
    /\ reports' = <<>>
    /\ fsAtCall' = fs
    /\ did' = {}
    /\ pc' = "cli_isfile"
    /\ UNCHANGED <<fs, nCells, i>>

\* lines 171-174
CliCheckMesh ==
    /\ pc = "cli_isfile"
    /\ IF ~MeshFileExists(mesh.value)
       THEN Exit(-1)
       ELSE /\ pc' = "cli_open"
            /\ UNCHANGED exitStatus
    /\ UNCHANGED <<fs, mode, argv, mesh, pickle, pickleFile, force,
                   pickle_fname, patch_collection, ret, reports, nCells, i,
                   output, fsAtCall, did>>

\* lines 176-181: the except branch prints and goes on, `mesh` still the str
CliOpen ==
    /\ pc = "cli_open"
    /\ mesh' = IF OpensAsDataset(mesh.value) THEN MeshFile(mesh.value)[1] ELSE mesh
    /\ pc' = "cli_output"
    /\ UNCHANGED <<fs, mode, argv, pickle, pickleFile, force, pickle_fname,
                   patch_collection, ret, exitStatus, reports, nCells, i,
                   output, fsAtCall, did>>

\* lines 183-185: generate_mesh_patch_fname(mesh) reads mesh.dimensions
CliDefaultOutput ==
    /\ pc = "cli_output"
    /\ IF Truthy(output)
       THEN /\ pc' = "cli_conflict"
            /\ UNCHANGED <<output, exitStatus>>
       ELSE IF HasMeshFields(mesh)
            THEN /\ output' = Some(generate_mesh_patch_fname(mesh))
                 /\ pc' = "cli_conflict"
                 /\ UNCHANGED exitStatus
            ELSE /\ Raise
                 /\ UNCHANGED output
    /\ UNCHANGED <<fs, mode, argv, mesh, pickle, pickleFile, force,
                   pickle_fname, patch_collection, ret, reports, nCells, i,
                   fsAtCall, did>>

\* faulty variant: the `not` before force is lost
OutputConflict_ForceInverted(files, out, f) == IsFile(files, out) /\ f

\* line 188: os.path.isfile(output) and not force
OutputConflict(files, out, f) == IsFile(files, out) /\ ~f

\* lines 187-190
CliCheckOutput ==
    /\ pc = "cli_conflict"
    /\ IF OutputConflict(fs, output[1], force)
       THEN Exit(-1)
       ELSE /\ pc' = "cli_call"
            /\ UNCHANGED exitStatus
    /\ UNCHANGED <<fs, mode, argv, mesh, pickle, pickleFile, force,
                   pickle_fname, patch_collection, ret, reports, nCells, i,
                   output, fsAtCall, did>>

\* line 192: get_mpas_patches(mesh, pickleFile=output, force=force)
CliCall ==
    /\ pc = "cli_call"
    /\ pickle' = TRUE
    /\ pickleFile' = output
    /\ pc' = "entry"
    /\ UNCHANGED <<fs, mode, argv, mesh, force, pickle_fname,
                   patch_collection, ret, exitStatus, reports, nCells, i,
                   output, fsAtCall, did>>

\* the call of line 192 has returned: the script ends, status 0
CliEnd ==
    /\ pc = "returned"
    /\ mode = "cli"
    /\ Exit(0)
    /\ UNCHANGED <<fs, mode, argv, mesh, pickle, pickleFile, force,
                   pickle_fname, patch_collection, ret, reports, nCells, i,
                   output, fsAtCall, did>>

InitCLI ==
    /\ InitCommon
    /\ fs \in [PathNames -> InitialContents]
    /\ fsAtCall = fs
    /\ pc = "idle"
    /\ mesh = StrMesh("")
    /\ pickle = TRUE
    /\ pickleFile = None
    /\ force = FALSE

NextCLI ==
    \/ \E a \in Argvs : CliRun(a)
    \/ CliCheckMesh
    \/ CliOpen
    \/ CliDefaultOutput
    \/ CliCheckOutput
    \/ CliCall
    \/ Entry
    \/ Lookup
    \/ Build
    \/ Pickle
    \/ Return
    \/ CliEnd

SpecCLI == InitCLI /\ [][NextCLI]_vars

----------------------------------------------------------------------------
(* The cell loop, lines 107-119, one cell per step, for its progress       *)
(* reports alone                                                           *)

\* lines 107-117: cell i is processed, and reported if i % 250 == 0
LoopCell ==
    /\ pc = "loop"
    /\ i < nCells
    /\ reports' = IF ReportsAt(i)
                  THEN Append(reports, update_progress(i, nCells))
                  ELSE reports
    /\ i' = i + 1
    /\ UNCHANGED <<fs, pc, mode, argv, mesh, pickle, pickleFile, force,
                   pickle_fname, patch_collection, ret, exitStatus, nCells,
                   output, fsAtCall, did>>

\* line 119: range(nCells) is exhausted
LoopEnd ==
    /\ pc = "loop"
    /\ i = nCells
    /\ pc' = "loopdone"
    /\ UNCHANGED <<fs, mode, argv, mesh, pickle, pickleFile, force,
                   pickle_fname, patch_collection, ret, exitStatus, reports,
                   nCells, i, output, fsAtCall, did>>

InitProgress ==
    /\ mode = "lib"
    /\ argv = NoArgv
    /\ mesh = MeshA
    /\ pickle = TRUE
    /\ pickleFile = None
    /\ force = FALSE
    /\ pickle_fname = None
    /\ patch_collection = None
    /\ ret = None
    /\ exitStatus = None
    /\ output = None
    /\ fs = [n \in PathNames |-> Absent]
    /\ fsAtCall = fs
    /\ did = {}
    /\ nCells \in 1..MaxProgressCells
    /\ i = 0
    /\ reports = <<>>
    /\ pc = "loop"

NextProgress ==
    \/ LoopCell
    \/ LoopEnd

SpecProgress == InitProgress /\ [][NextProgress]_vars

----------------------------------------------------------------------------
(* Properties of the build (checked under SpecBuild) *)

\* the build of the current call has produced its collection
Built == patch_collection # None

\* the points of the path built for cell c, and their longitudes
PolygonOf(c) == patch_collection[1][c].vertices
LonsOf(points) == [j \in 1..Len(points) |-> points[j][1]]

\* Mesh invariant of the data model: counts within maxEdges and every
\* referenced slot a valid 1-based vertex index; unused slots are free.
ReferencedInRange(m) ==
    \A c \in 1..m.nCells :
        \A j \in 1..m.nEdgesOnCell[c] :
            m.verticesOnCell[c][j] \in 1..Len(m.latVertex)

MeshInvariant(m) ==
    /\ \A c \in 1..m.nCells : m.nEdgesOnCell[c] \in 0..m.maxEdges
    /\ ReferencedInRange(m)

\* C1: for a mesh satisfying the Mesh invariant, the polygon built for cell
\* c has exactly nEdgesOnCell[c] + 1 points and its last point equals its
\* first, whatever the unused slots of verticesOnCell hold.
C1_ClosedRing ==
    (Built /\ MeshInvariant(mesh)) =>
        \A c \in 1..mesh.nCells :
            /\ Len(PolygonOf(c)) = mesh.nEdgesOnCell[c] + 1
            /\ PolygonOf(c)[Len(PolygonOf(c))] = PolygonOf(c)[1]

\* C5: after the unwrap step every point of a cell's polygon has its
\* latitude unchanged and its longitude either unchanged, lowered by exactly
\* 360 (diff > 180) or raised by exactly 360 (diff < -180), diff being taken
\* against the first vertex's original longitude; the first vertex is
\* unchanged; and every point whose original longitude is within 360 degrees
\* of the first vertex's (as when all lie in one interval of width at most
\* 360) ends within 180 degrees of the first vertex.
C5_UnwrapWithin180 ==
    Built =>
        \A c \in 1..mesh.nCells :
            LET orig == GatherDegrees(mesh)[c]
                poly == PolygonOf(c)
            IN  /\ poly[1] = orig[1]
                /\ \A j \in 1..Len(poly) :
                       LET diff == orig[j][1] - orig[1][1]
                       IN  /\ poly[j][2] = orig[j][2]
                           /\ diff > 180 => poly[j][1] = orig[j][1] - 360
                           /\ diff < -180 => poly[j][1] = orig[j][1] + 360
                           /\ Abs(diff) <= 180 => poly[j][1] = orig[j][1]
                           /\ Abs(diff) <= 360 =>
                                  Abs(poly[j][1] - poly[1][1]) <= 180

\* C5 witness: the cell with longitudes 179, -179, 179 comes out as
\* 179, 181, 179
C5_Witness ==
    /\ Built
    /\ LonsOf(GatherDegrees(mesh)[1]) = <<179, -179, 179>>
    /\ mesh.nEdgesOnCell[1] = 2
    /\ LonsOf(PolygonOf(1)) = <<179, 181, 179>>

\* C10: a point whose longitude differs from the first vertex's by exactly
\* +180 or exactly -180 degrees keeps its longitude.
C10_StrictComparison ==
    Built =>
        \A c \in 1..mesh.nCells :
            \A j \in 1..Len(PolygonOf(c)) :
                Abs(GatherDegrees(mesh)[c][j][1] - GatherDegrees(mesh)[c][1][1]) = 180
                    => PolygonOf(c)[j][1] = GatherDegrees(mesh)[c][j][1]

\* C10 witness: a cell whose first vertex is at 181 degrees and whose
\* second is at 1 degree (diff exactly -180) keeps both longitudes
C10_Witness ==
    /\ Built
    /\ LonsOf(GatherDegrees(mesh)[1]) = <<181, 1, 181>>
    /\ LonsOf(PolygonOf(1)) = <<181, 1, 181>>

\* some referenced entry of verticesOnCell lies outside [1, len(latVertex)]
HasBadReference(m) == ~ReferencedInRange(m)

\* C6: a build of a mesh with a referenced index outside [1, nVertices]
\* (zero, negative, or too large) ends in a fatal error: no collection is
\* built or returned and none is written to the cache path.
C6_BadIndexFatal ==
    HasBadReference(mesh) =>
        /\ patch_collection = None
        /\ ret = None
        /\ "write" \notin did
        /\ fs = fsAtCall

----------------------------------------------------------------------------
(* Properties of the cache (checked under Spec) *)

\* the current call has computed its file name (it is past line 59)
Named == pickle_fname # None
Fname == pickle_fname[1]

\* the call was made with force true or found no file at its path
ForcedOrMiss == force \/ ~IsFile(fsAtCall, Fname)

\* C2 as stated: every call with force true or no file at the path, whatever
\* its other arguments, that returns has built a collection from the mesh
\* and left its serialization in the file at the path.
C2_AlwaysPersisted ==
    (Named /\ ForcedOrMiss /\ pc = "returned") =>
        /\ "build" \in did
        /\ ret = Some(BuildPatches(mesh))
        /\ fs[Fname] = PickleDump(ret[1])

\* C2 amended: the same for the calls made with pickle true.  The collection
\* is built before the file is written and the file is written before the
\* call returns.
C2_PersistedWhenPickling ==
    (Named /\ ForcedOrMiss /\ pickle) =>
        /\ pc \in {"pickle", "return", "returned"} =>
               /\ "build" \in did
               /\ patch_collection = Some(BuildPatches(mesh))
        /\ pc \in {"lookup", "build", "pickle"} =>
               /\ ret = None
               /\ fs = fsAtCall
        /\ pc = "return" =>
               /\ ret = None
               /\ fs[Fname] = PickleDump(patch_collection[1])
        /\ pc = "returned" =>
               /\ ret = patch_collection
               /\ "write" \in did
               /\ fs[Fname] = PickleDump(ret[1])

\* C2 witness: a forced call has returned after replacing a valid pickle
\* file by that of a different collection
C2_Witness ==
    /\ Named /\ pickle /\ force /\ pc = "returned"
    /\ Unpickles(fsAtCall[Fname])
    /\ fs[Fname] # fsAtCall[Fname]
    /\ fs[Fname] = PickleDump(ret[1])

\* the call is not forced and found a file it cannot unpickle
CorruptHit == Named /\ ~force /\ IsFile(fsAtCall, Fname) /\ ~Unpickles(fsAtCall[Fname])

\* C3: a call with force false that finds an undeserializable file at the
\* path ends in a process exit with nonzero status; it never builds, never
\* returns a collection, and leaves every file as it was.
C3_CorruptIsFatal ==
    CorruptHit =>
        /\ pc \in {"lookup", "exited"}
        /\ "build" \notin did
        /\ patch_collection = None
        /\ ret = None
        /\ fs = fsAtCall
        /\ pc = "lookup" => ENABLED Lookup
        /\ pc = "exited" => exitStatus # None /\ exitStatus[1] # 0

C3_Witness ==
    /\ CorruptHit
    /\ pc = "exited"
    /\ "loadfail" \in did
    /\ exitStatus = Some(255)

\* the call is not forced and found a file that unpickles
ValidHit == Named /\ ~force /\ Unpickles(fsAtCall[Fname])

\* C4: a call with force false that finds a deserializable file returns the
\* collection stored in it, never runs the build, and leaves the files
\* unchanged.
C4_HitReturnsStored ==
    ValidHit =>
        /\ pc \in {"lookup", "returned"}
        /\ "build" \notin did
        /\ patch_collection = None
        /\ fs = fsAtCall
        /\ exitStatus = None
        /\ pc = "lookup" => ENABLED Lookup
        /\ pc = "returned" => ret = Some(PickleLoad(fsAtCall[Fname]))

\* C4 witness: the hit returns the stored collection although it is not the
\* one the mesh of the call would give
C4_Witness ==
    /\ ValidHit
    /\ pc = "returned"
    /\ "load" \in did
    /\ ret # Some(BuildPatches(mesh))

\* C7: at every step and for every path, a file appears only at the path of
\* the running call, and only if that call found no file there or has force
\* true; the content of an existing file changes only at the path of a
\* running call with force true; an existing file is never removed.
C7_Step ==
    \A p \in PathNames :
        /\ (~IsFile(fs, p) /\ IsFile(fs', p)) =>
               /\ Named /\ p = Fname
               /\ force \/ ~IsFile(fsAtCall, p)
        /\ (IsFile(fs, p) /\ fs'[p] # fs[p]) =>
               /\ Named /\ p = Fname
               /\ force
        /\ IsFile(fs, p) => IsFile(fs', p)

C7_Lifecycle == [][C7_Step]_vars

\* C7 witness: a forced call has just overwritten a file that existed when
\* it started
C7_Witness ==
    /\ Named /\ force /\ "write" \in did
    /\ IsFile(fsAtCall, Fname)
    /\ fs[Fname] # fsAtCall[Fname]

----------------------------------------------------------------------------
(* Properties of the script (checked under SpecCLI) *)

\* the three cases of C8, for the arguments of the current run and the
\* files it started from
MeshMissing == ~MeshFileExists(argv.mesh)
MeshInvalid == MeshFileExists(argv.mesh) /\ ~IsMeshFile(argv.mesh)
OutputExistsUnforced ==
    /\ ~argv.force
    /\ \/ Truthy(argv.output) /\ IsFile(fsAtCall, argv.output[1])
       \/ /\ ~Truthy(argv.output)
          /\ IsMeshFile(argv.mesh)
          /\ IsFile(fsAtCall, generate_mesh_patch_fname(MeshFile(argv.mesh)[1]))

Running == pc \notin {"idle", "exited", "raised"}

\* C8: a script run whose mesh path names no file, or whose mesh file does
\* not open as a mesh, or whose output path exists while force is not
\* set, never reaches the cache lookup, the build or the write, changes no
\* file, keeps running until it terminates, and terminates with a nonzero
\* status.
C8_EarlyExit ==
    (mode = "cli" /\ pc # "idle" /\ (MeshMissing \/ MeshInvalid \/ OutputExistsUnforced)) =>
        /\ pc \in {"cli_isfile", "cli_open", "cli_output", "cli_conflict",
                   "cli_call", "entry", "exited", "raised"}
        /\ did = {}
        /\ patch_collection = None
        /\ ret = None
        /\ fs = fsAtCall
        /\ Running => ENABLED (CliCheckMesh \/ CliOpen \/ CliDefaultOutput
                               \/ CliCheckOutput \/ CliCall \/ Entry)
        /\ ~Running => exitStatus # None /\ exitStatus[1] # 0

\* C8 witness: a file that is not NetCDF, given with -o and -f, gets as far
\* as the call of get_mpas_patches and dies there on mesh.dimensions
C8_Witness ==
    /\ mode = "cli"
    /\ MeshInvalid
    /\ ~OpensAsDataset(argv.mesh)
    /\ argv.force
    /\ Truthy(argv.output)
    /\ pc = "raised"
    /\ pickleFile = argv.output
    /\ exitStatus = Some(1)

----------------------------------------------------------------------------
(* Properties of the progress reports (checked under SpecProgress) *)

\* a/b < c/d for positive denominators
FracLess(r1, r2) == r1.num * r2.den < r2.num * r1.den

\* C9: when the loop of a build is over, the fractions reported are strictly
\* increasing, each within [0, 1], one per 250 cells in index order, and the
\* last one is exactly 1.0, taking the completion branch of update_progress.
C9_ProgressEndsAtOne ==
    pc = "loopdone" =>
        /\ Len(reports) >= 1
        /\ \A k \in 1..Len(reports) :
               /\ reports[k].num = ProgressCadence * (k - 1)
               /\ 0 <= reports[k].num /\ reports[k].num <= reports[k].den
        /\ \A k \in 1..(Len(reports) - 1) : FracLess(reports[k], reports[k + 1])
        /\ reports[Len(reports)].num = reports[Len(reports)].den
        /\ reports[Len(reports)].done

====
